---- MODULE Spec2Model ----
(***************************************************************************)
(* dependawhat: the title parser (extractPackageInfo), the deny matcher    *)
(* (isDenied), the policy resolver (removeDuplicates in runCheck) and the  *)
(* PR enumerator (GetDependabotPRsWithDenyList, the loop of runCheck).     *)
(*                                                                         *)
(* Go strings are TLA+ strings; TLC evaluates Len, \o and SubSeq on them.  *)
(* The model is restricted to ASCII text: strings.ToLower, EqualFold,      *)
(* TrimSpace, Fields and the regexp class \s are modelled on ASCII.        *)
(***************************************************************************)
EXTENDS Integers, Sequences, FiniteSets, TLC

VARIABLES
    pc,              \* position of the run
    input,           \* the inputs drawn for the run (title parts, package name, ...)
    title,           \* the PR title handed to extractPackageInfo
    packageName,     \* extractPackageInfo's first result
    orgName,         \* extractPackageInfo's second result
    globalPackages,  \* config: global.denied_packages
    globalOrgs,      \* config: global.denied_orgs
    repoPackages,    \* config: repositories.<key>.denied_packages
    repoOrgs,        \* config: repositories.<key>.denied_orgs
    deniedPackages,  \* q.DeniedPackages
    deniedOrgs,      \* q.DeniedOrgs
    denied,          \* isDenied's result
    ri,              \* runCheck: index of the repository being checked
    pulls,           \* GetDependabotPRsWithDenyList: the listed pull requests
    pi,              \* GetDependabotPRsWithDenyList: index of the next pull request
    prs,             \* GetDependabotPRsWithDenyList: the records built so far
    out,             \* runCheck: what was printed, one entry per repository
    runErr           \* runCheck's returned error ("" is nil, "unset" before return)

vars == <<pc, input, title, packageName, orgName, globalPackages, globalOrgs,
          repoPackages, repoOrgs, deniedPackages, deniedOrgs, denied,
          ri, pulls, pi, prs, out, runErr>>

parseVars  == <<title, packageName, orgName>>
configVars == <<globalPackages, globalOrgs, repoPackages, repoOrgs>>
queryVars  == <<deniedPackages, deniedOrgs>>
runVars    == <<ri, pulls, pi, prs, out, runErr>>

-----------------------------------------------------------------------------
(* Bounds of the model.                                                    *)

MaxSegs == 3
MaxList == 2
MaxPRs  == 2

-----------------------------------------------------------------------------
(* The strings package, on ASCII.                                          *)

At(s, i) == SubSeq(s, i, i)

UpperChars == "ABCDEFGHIJKLMNOPQRSTUVWXYZ"
LowerChars == "abcdefghijklmnopqrstuvwxyz"

LowerMap ==
    [c \in {At(UpperChars, i) : i \in 1..Len(UpperChars)} |->
        At(LowerChars, CHOOSE i \in 1..Len(UpperChars) : At(UpperChars, i) = c)]

LowerChar(c) == IF c \in DOMAIN LowerMap THEN LowerMap[c] ELSE c

RECURSIVE ToLower(_)
ToLower(s) ==
    IF s = "" THEN "" ELSE LowerChar(At(s, 1)) \o ToLower(SubSeq(s, 2, Len(s)))

EqualFold(s, t) == ToLower(s) = ToLower(t)

HasPrefix(s, p) == Len(p) <= Len(s) /\ SubSeq(s, 1, Len(p)) = p

HasSuffix(s, p) == Len(p) <= Len(s) /\ SubSeq(s, Len(s) - Len(p) + 1, Len(s)) = p

TrimPrefix(s, p) == IF HasPrefix(s, p) THEN SubSeq(s, Len(p) + 1, Len(s)) ELSE s

\* strings.Index: the 0-based offset of the first occurrence, -1 when absent.
RECURSIVE IndexFrom(_, _, _)
IndexFrom(s, sub, i) ==
    IF i + Len(sub) > Len(s) THEN -1
    ELSE IF SubSeq(s, i + 1, i + Len(sub)) = sub THEN i
    ELSE IndexFrom(s, sub, i + 1)

Index(s, sub) == IndexFrom(s, sub, 0)

Contains(s, sub) == Index(s, sub) >= 0

\* strings.Split(s, sep) for a one-character sep: n separators give n+1 parts.
RECURSIVE Split(_, _)
Split(s, sep) ==
    LET i == Index(s, sep)
    IN  IF i < 0 THEN <<s>>
        ELSE <<SubSeq(s, 1, i)>> \o Split(SubSeq(s, i + 2, Len(s)), sep)

\* unicode.IsSpace on ASCII, without \v, which a TLA+ string cannot hold;
\* these are also the characters of the regexp class \s.
IsSpace(c) == c \in {" ", "\t", "\n", "\r", "\f"}

RECURSIVE TrimLeft(_)
TrimLeft(s) ==
    IF s # "" /\ IsSpace(At(s, 1)) THEN TrimLeft(SubSeq(s, 2, Len(s))) ELSE s

RECURSIVE TrimRight(_)
TrimRight(s) ==
    IF s # "" /\ IsSpace(At(s, Len(s))) THEN TrimRight(SubSeq(s, 1, Len(s) - 1)) ELSE s

TrimSpace(s) == TrimRight(TrimLeft(s))

\* The end (exclusive, 1-based) of the run of characters from i on that are
\* whitespace (space = TRUE) or not whitespace (space = FALSE).
RECURSIVE RunEnd(_, _, _)
RunEnd(s, i, space) ==
    IF i > Len(s) \/ IsSpace(At(s, i)) # space THEN i ELSE RunEnd(s, i + 1, space)

\* strings.Fields: the maximal runs of non-whitespace characters.
RECURSIVE Fields(_)
Fields(s) ==
    LET b == RunEnd(s, 1, TRUE)
        e == RunEnd(s, b, FALSE)
    IN  IF b > Len(s) THEN <<>>
        ELSE <<SubSeq(s, b, e - 1)>> \o Fields(SubSeq(s, e, Len(s)))

-----------------------------------------------------------------------------
(* The title parser.                                                       *)

\* Whether t holds word, compared ignoring case, at the 1-based position p.
FoldAt(t, p, word) ==
    /\ p + Len(word) - 1 <= Len(t)
    /\ ToLower(SubSeq(t, p, p + Len(word) - 1)) = word

\* The rest of each pattern, \s+([^\s]+)\s+(?:from|to), matched at position p:
\* the captured token, "" when there is no match.  \s and [^\s] are
\* complementary, so both runs are maximal and the match is unique.
MatchTail(t, p) ==
    LET b == RunEnd(t, p, TRUE)       \* the token's first character
        e == RunEnd(t, b, FALSE)      \* the whitespace after the token
        w == RunEnd(t, e, TRUE)       \* the word after that whitespace
    IN  IF /\ b > p /\ e > b /\ w > e
           /\ (FoldAt(t, w, "from") \/ FoldAt(t, w, "to"))
        THEN SubSeq(t, b, e - 1)
        ELSE ""

\* The three patterns: (?i)^<anchor>.*<keyword>\s+([^\s]+)\s+(?:from|to), the
\* first two without the "<anchor>.*" part.
patterns ==
    << [anchor |-> "",      keyword |-> "bump"],
       [anchor |-> "",      keyword |-> "update"],
       [anchor |-> "chore", keyword |-> "bump"] >>

\* regex.FindStringSubmatch(title)[pkgIndex], "" when the pattern does not
\* match.  The greedy .* takes the last keyword position that leads to a match;
\* . does not match a newline.
RECURSIVE LastMatch(_, _, _, _)
LastMatch(p, t, k, low) ==
    IF k < low THEN ""
    ELSE LET m == IF FoldAt(t, k, p.keyword)
                  THEN MatchTail(t, k + Len(p.keyword)) ELSE ""
         IN  IF m # "" THEN m ELSE LastMatch(p, t, k - 1, low)

FindStringSubmatch(p, t) ==
    LET a  == Len(p.anchor)
        nl == Index(SubSeq(t, a + 1, Len(t)), "\n")   \* where .* must stop
    IN  IF a = 0 THEN LastMatch(p, t, 1, 1)
        ELSE IF FoldAt(t, 1, p.anchor)
        THEN LastMatch(p, t, IF nl < 0 THEN Len(t) ELSE a + 1 + nl, a + 1)
        ELSE ""

\* Phase 1: the first pattern that matches gives the package name.
RECURSIVE FirstPattern(_, _)
FirstPattern(i, t) ==
    IF i > Len(patterns) THEN ""
    ELSE LET m == FindStringSubmatch(patterns[i], t)
         IN  IF m # "" THEN m ELSE FirstPattern(i + 1, t)

PatternPackage(t) == FirstPattern(1, t)

\* Phase 2: the first field after the first that contains "/" or "@".
RECURSIVE FirstPackageLike(_, _)
FirstPackageLike(parts, i) ==
    IF i > Len(parts) THEN ""
    ELSE IF Contains(parts[i], "/") \/ Contains(parts[i], "@") THEN parts[i]
    ELSE FirstPackageLike(parts, i + 1)

FallbackPackage(t) == FirstPackageLike(Fields(t), 2)

\* The two phases in the wrong order.
extractPackageNameFallbackFirst(t) ==
    LET name == FallbackPackage(t)
    IN  IF name # "" THEN name ELSE PatternPackage(t)

extractPackageName(t) ==
    LET name == PatternPackage(t)
    IN  IF name # "" THEN name ELSE FallbackPackage(t)

\* The second segment of every path, whatever its host.
extractOrgNameSecondSegment(name) ==
    IF name = "" THEN ""
    ELSE IF HasPrefix(name, "@") /\ Contains(name, "/")
    THEN TrimPrefix(Split(name, "/")[1], "@")
    ELSE IF Contains(name, "/") THEN Split(name, "/")[2]
    ELSE ""

\* The organization of a package name.
extractOrgName(name) ==
    LET parts == Split(name, "/")
        cand  == {i \in 2..Len(parts) :
                    ~Contains(parts[i], ".") /\ ~HasPrefix(parts[i], "v")}
    IN  IF name = "" THEN ""
        ELSE IF HasPrefix(name, "@") /\ Contains(name, "/")
        THEN TrimPrefix(parts[1], "@")
        ELSE IF Contains(name, "/")
        THEN IF HasPrefix(name, "golang.org/x/") \/ HasPrefix(name, "google.golang.org/")
             THEN ""
             ELSE IF HasPrefix(name, "gopkg.in/")
             THEN IF Len(parts) > 2 THEN ToLower(parts[2]) ELSE ""
             ELSE IF Len(parts) >= 3 /\ HasPrefix(name, "github.com/")
             THEN parts[2]
             ELSE IF cand = {} THEN ""
                  ELSE parts[CHOOSE i \in cand : \A j \in cand : i <= j]
        ELSE ""

extractPackageInfo(t) ==
    LET name == extractPackageName(t)
    IN  [packageName |-> name, orgName |-> extractOrgName(name)]

-----------------------------------------------------------------------------
(* The deny matcher.                                                       *)

\* A plain entry matched as a substring, like a versioned one.
PackageEntryDeniesBySubstring(name, entry) ==
    LET pattern == ToLower(entry)
        pkg     == ToLower(name)
    IN  IF Contains(entry, "*")
        THEN \/ pattern = "*alpha*" /\ Contains(pkg, "alpha")
             \/ pattern = "*beta*"  /\ Contains(pkg, "beta")
             \/ pattern = "*rc*"    /\ Contains(pkg, "rc")
             \/ pattern = "*/v0"    /\ HasSuffix(pkg, "/v0")
        ELSE Contains(pkg, pattern)

\* A wildcard entry that is none of the four forms falls through to the
\* comparisons of a plain entry instead of being skipped.
PackageEntryDeniesFallThrough(name, entry) ==
    LET pattern == ToLower(entry)
        pkg     == ToLower(name)
        idx     == Index(pkg, "@")
    IN  \/ /\ Contains(entry, "*")
           /\ \/ pattern = "*alpha*" /\ Contains(pkg, "alpha")
              \/ pattern = "*beta*"  /\ Contains(pkg, "beta")
              \/ pattern = "*rc*"    /\ Contains(pkg, "rc")
              \/ pattern = "*/v0"    /\ HasSuffix(pkg, "/v0")
        \/ EqualFold(name, entry)
        \/ IF Contains(entry, "@")
           THEN Contains(pkg, pattern)
           ELSE \/ pkg = pattern
                \/ idx > 0 /\ SubSeq(pkg, 1, idx) = pattern

\* The body of isDenied's first loop for one entry: TRUE when it returns true.
PackageEntryDenies(name, entry) ==
    LET pattern == ToLower(entry)
        pkg     == ToLower(name)
        idx     == Index(pkg, "@")
    IN  IF Contains(entry, "*")
        THEN \/ pattern = "*alpha*" /\ Contains(pkg, "alpha")
             \/ pattern = "*beta*"  /\ Contains(pkg, "beta")
             \/ pattern = "*rc*"    /\ Contains(pkg, "rc")
             \/ pattern = "*/v0"    /\ HasSuffix(pkg, "/v0")
        ELSE \/ EqualFold(name, entry)
             \/ IF Contains(entry, "@")
                THEN Contains(pkg, pattern)
                ELSE \/ pkg = pattern
                     \/ idx > 0 /\ SubSeq(pkg, 1, idx) = pattern

\* The body of isDenied's second loop for one entry.
OrgEntryDenies(org, entry) == EqualFold(org, entry)

\* Both loops return true at the first entry that matches and change nothing,
\* so the result is the disjunction over the entries.
isDenied(name, org, packages, orgs) ==
    \/ \E i \in 1..Len(packages) : PackageEntryDenies(name, packages[i])
    \/ \E i \in 1..Len(orgs) : OrgEntryDenies(org, orgs[i])

-----------------------------------------------------------------------------
(* The policy resolver.                                                    *)

\* Items compared with their case kept.
RECURSIVE removeDuplicatesCaseSensitive(_, _)
removeDuplicatesCaseSensitive(slice, seen) ==
    IF slice = <<>> THEN <<>>
    ELSE LET item       == Head(slice)
             normalized == TrimSpace(item)
         IN  IF normalized # "" /\ normalized \notin seen
             THEN <<item>> \o removeDuplicatesCaseSensitive(Tail(slice), seen \cup {normalized})
             ELSE removeDuplicatesCaseSensitive(Tail(slice), seen)

\* Blank items kept.
RECURSIVE removeDuplicatesKeepBlank(_, _)
removeDuplicatesKeepBlank(slice, seen) ==
    IF slice = <<>> THEN <<>>
    ELSE LET item       == Head(slice)
             normalized == ToLower(TrimSpace(item))
         IN  IF normalized \notin seen
             THEN <<item>> \o removeDuplicatesKeepBlank(Tail(slice), seen \cup {normalized})
             ELSE removeDuplicatesKeepBlank(Tail(slice), seen)

\* removeDuplicates: seen is the set of normalized items kept so far.
RECURSIVE removeDuplicatesFrom(_, _)
removeDuplicatesFrom(slice, seen) ==
    IF slice = <<>> THEN <<>>
    ELSE LET item       == Head(slice)
             normalized == ToLower(TrimSpace(item))
         IN  IF normalized # "" /\ normalized \notin seen
             THEN <<item>> \o removeDuplicatesFrom(Tail(slice), seen \cup {normalized})
             ELSE removeDuplicatesFrom(Tail(slice), seen)

removeDuplicates(slice) == removeDuplicatesFrom(slice, {})

\* runCheck's merge of the global list with the repository's list.
mergeDenyList(global, repo) == removeDuplicates(global \o repo)

-----------------------------------------------------------------------------
(* The record of one pull request.                                         *)

\* The reason of the first loop: the org, when an entry of orgs equals it.
OrgReason(org, orgs) ==
    IF org # "" /\ \E i \in 1..Len(orgs) : EqualFold(org, orgs[i])
    THEN "org '" \o org \o "' is denied"
    ELSE ""

\* The reason of the second loop: the first entry equal to the package name
\* or contained in it, ignoring case.
PackageReason(name, packages) ==
    LET hits == {i \in 1..Len(packages) :
                   \/ EqualFold(name, packages[i])
                   \/ Contains(ToLower(name), ToLower(packages[i]))}
    IN  IF name # "" /\ hits # {}
        THEN "package '" \o packages[CHOOSE i \in hits : \A j \in hits : i <= j]
                 \o "' is denied"
        ELSE ""

SkipReason(name, org, packages, orgs) ==
    IF ~isDenied(name, org, packages, orgs) THEN ""
    ELSE IF OrgReason(org, orgs) # "" THEN OrgReason(org, orgs)
    ELSE PackageReason(name, packages)

\* PRInfo for pull request p (its Number, Title, its status lookup's result);
\* the lookup's failure leaves Status "".
PRInfo(p, packages, orgs) ==
    LET info == extractPackageInfo(p.title)
    IN  [Number     |-> p.number,
         Title      |-> p.title,
         Status     |-> IF p.statusErr THEN "" ELSE p.state,
         Skipped    |-> isDenied(info.packageName, info.orgName, packages, orgs),
         SkipReason |-> SkipReason(info.packageName, info.orgName, packages, orgs)]

-----------------------------------------------------------------------------
(* Configuration values and the idle values of the variables.              *)

\* A configuration key: set tells viper.IsSet, value is the list it holds.
Absent == [set |-> FALSE, value |-> <<>>]
Listed(l) == [set |-> TRUE, value |-> l]

getStringSlice(c) == IF c.set THEN c.value ELSE <<>>

RepoKeys == {"o/r1", "o/r2"}

NoOverride == [k \in RepoKeys |-> Absent]

\* All sequences over S of length at most n.
SeqsUpTo(S, n) == UNION {[1..k -> S] : k \in 0..n}

IdleParse  == title = "" /\ packageName = "" /\ orgName = ""
IdleConfig == /\ globalPackages = Absent /\ globalOrgs = Absent
              /\ repoPackages = NoOverride /\ repoOrgs = NoOverride
IdleQuery  == deniedPackages = <<>> /\ deniedOrgs = <<>>
IdleRun    == /\ ri = 0 /\ pulls = <<>> /\ pi = 0 /\ prs = <<>>
              /\ out = <<>> /\ runErr = "unset"

-----------------------------------------------------------------------------
(* SpecParse: extractPackageInfo on titles built from their parts.         *)

Segs == {"github.com", "gopkg.in", "golang.org", "google.golang.org",
         "x", "@dd", "DataDog", "v2", ""}

RECURSIVE JoinSegs(_)
JoinSegs(k) ==
    IF k = 1 THEN Segs ELSE {p \o "/" \o s : p \in JoinSegs(k - 1), s \in Segs}

\* The package identifiers of at most MaxSegs segments.
Idents == UNION {JoinSegs(k) : k \in 1..MaxSegs}

Keywords == {"Bump", "BUMP", "bump", "Update", "chore(deps): bump", "Build(deps): bump"}
Conns    == {" from ", " requirement from "}
Olds     == {"1.0", "a/b", "to"}
News     == {"2.0", "c@d"}

\* Titles of every shape around a short identifier, and the two shapes the bot
\* writes around every identifier.
ShapeInputs == [kw : Keywords, X : Segs \cup {"rails", "pkg@v1"}, conn : Conns,
                A : Olds, B : News]
IdentInputs == [kw : {"Bump", "chore(deps): bump"}, X : Idents, conn : {" from "},
                A : {"1.0"}, B : {"2.0"}]

TitleOf(in) == in.kw \o " " \o in.X \o in.conn \o in.A \o " to " \o in.B

ParseInit ==
    /\ pc = "parse"
    /\ input \in ShapeInputs \cup IdentInputs
    /\ title = TitleOf(input)
    /\ packageName = "" /\ orgName = ""
    /\ denied = FALSE
    /\ IdleConfig /\ IdleQuery /\ IdleRun

\* packageName, orgName := extractPackageInfo(title)
Parse ==
    /\ pc = "parse"
    /\ LET info == extractPackageInfo(title)
       IN  packageName' = info.packageName /\ orgName' = info.orgName
    /\ pc' = "parsed"
    /\ UNCHANGED <<input, title, denied, configVars, queryVars, runVars>>

ParseNext == Parse

SpecParse == ParseInit /\ [][ParseNext]_vars

-----------------------------------------------------------------------------
(* SpecPolicy and SpecMatch: one repository's deny lists are merged as in   *)
(* runCheck, then one title is parsed and matched as in                     *)
(* GetDependabotPRsWithDenyList.  The two differ in the inputs they draw.   *)

PolicyEntries == {"", " ", "pkg", " PKG", "b@1"}
PolicyTitles  == {"hello world", "Bump pkg from 1 to 2"}

PolicyInit ==
    /\ pc = "merge"
    /\ input = [repo |-> "o/r1", titles |-> PolicyTitles]
    /\ globalPackages \in {Listed(l) : l \in SeqsUpTo(PolicyEntries, MaxList)}
    /\ \E c \in {Absent} \cup {Listed(l) : l \in SeqsUpTo(PolicyEntries, MaxList)} :
          repoPackages = [NoOverride EXCEPT !["o/r1"] = c]
    /\ \/ globalOrgs = Listed(<<"", "dd">>) /\ repoOrgs = NoOverride
       \/ /\ globalOrgs = Absent
          /\ repoOrgs = [NoOverride EXCEPT !["o/r1"] = Listed(<<"DD ", "dd", " ", "dd ">>)]
    /\ denied = FALSE
    /\ IdleParse /\ IdleQuery /\ IdleRun

MatchPkgs == {"aws-sdk-go", "aws-sdk-go-v2", "AWS-SDK-GO@v1", "@v1",
              "@datadog/browser-rum", "@datadog/browser-rum-react",
              "*foo*", "my-alpha", "arc/v0", "x-BETA"}

MatchEntries == {"", "aws-sdk-go", "Aws-Sdk-Go", "aws-sdk", "aws-sdk-go@v1",
                 "@datadog/browser-rum", "*foo*", "*", "*arc/v0",
                 "*ALPHA*", "*beta*", "*rc*", "*/v0"}

MatchTitleOf(P) == "Bump " \o P \o " from 1 to 2"

MatchInit ==
    /\ pc = "merge"
    /\ input = [repo |-> "o/r2", titles |-> {MatchTitleOf(P) : P \in MatchPkgs} \cup {"Update"}]
    /\ globalPackages \in {Listed(l) : l \in SeqsUpTo(MatchEntries, MaxList)}
    /\ repoPackages = NoOverride
    /\ globalOrgs = Absent
    /\ repoOrgs \in {NoOverride, [NoOverride EXCEPT !["o/r2"] = Listed(<<"DataDog">>)]}
    /\ denied = FALSE
    /\ IdleParse /\ IdleQuery /\ IdleRun

\* runCheck: the deny lists of the repository, global first, duplicates removed.
Merge ==
    /\ pc = "merge"
    /\ deniedPackages' = mergeDenyList(getStringSlice(globalPackages),
                                       getStringSlice(repoPackages[input.repo]))
    /\ deniedOrgs' = mergeDenyList(getStringSlice(globalOrgs),
                                   getStringSlice(repoOrgs[input.repo]))
    /\ pc' = "match"
    /\ UNCHANGED <<input, parseVars, denied, configVars, runVars>>

\* GetDependabotPRsWithDenyList: one title parsed and matched.
Match ==
    /\ pc = "match"
    /\ \E t \in input.titles :
          LET info == extractPackageInfo(t)
          IN  /\ title' = t
              /\ packageName' = info.packageName
              /\ orgName' = info.orgName
              /\ denied' = isDenied(info.packageName, info.orgName,
                                    deniedPackages, deniedOrgs)
    /\ pc' = "done"
    /\ UNCHANGED <<input, configVars, queryVars, runVars>>

PolicyNext == Merge \/ Match

SpecPolicy == PolicyInit /\ [][PolicyNext]_vars

SpecMatch == MatchInit /\ [][PolicyNext]_vars

-----------------------------------------------------------------------------
(* Spec: one run of the check command.  runCheck walks the repositories;   *)
(* for each it merges the deny lists and calls                              *)
(* GetDependabotPRsWithDenyList, which lists the pull requests and builds   *)
(* one record per bot-authored pull request, looking up its CI status.      *)

dependabotUserID == 49699333

\* The pull requests the API may list: bot-authored ones, whose status lookup
\* fails or gives a state, and one by another user.
MainTitles == {"Bump github.com/datadog/datadog-go from 5.0.0 to 5.1.0",
               "Bump my-alpha from 1 to 2",
               "Bump aws-sdk-go-v2 from 1 to 2"}

PullKinds ==
    [user : {dependabotUserID}, title : MainTitles, statusErr : {TRUE}, state : {""}]
    \cup [user : {dependabotUserID}, title : MainTitles, statusErr : {FALSE},
          state : {"success", "failure"}]
    \cup [user : {dependabotUserID + 1}, title : {"Fix typo in README from a/b"},
          statusErr : {FALSE}, state : {"success"}]

Configs ==
    { [gp |-> Listed(<<"*alpha*", "aws-sdk-go">>), go |-> Listed(<<"DataDog">>),
       rp |-> [NoOverride EXCEPT !["o/r2"] = Listed(<<"aws-sdk-go-v2", "AWS-SDK-GO">>)],
       ro |-> NoOverride],
      [gp |-> Absent, go |-> Absent, rp |-> NoOverride, ro |-> NoOverride],
      [gp |-> Absent, go |-> Absent,
       rp |-> [NoOverride EXCEPT !["o/r1"] = Listed(<<"github.com/datadog/datadog-go">>)],
       ro |-> [NoOverride EXCEPT !["o/r2"] = Listed(<<"datadog">>)]] }

\* input.repos is the list runCheck walks (its arguments, or the configured
\* repositories); input.listFails holds the repositories whose listing fails.
Init ==
    /\ pc = "start"
    /\ input \in [token : {"", "tok"},
                  repos : {<<>>, <<"o/r1", "invalid", "o/r2">>},
                  listFails : SUBSET RepoKeys]
    /\ \E c \in Configs :
          /\ globalPackages = c.gp /\ globalOrgs = c.go
          /\ repoPackages = c.rp /\ repoOrgs = c.ro
    /\ denied = FALSE
    /\ IdleParse /\ IdleQuery /\ IdleRun

\* runCheck returns an error before the loop: no token.
StartNoToken ==
    /\ pc = "start" /\ input.token = ""
    /\ runErr' = "GitHub token not provided"
    /\ pc' = "done"
    /\ UNCHANGED <<input, parseVars, configVars, queryVars, denied, ri, pulls, pi, prs, out>>

\* runCheck returns an error before the loop: no repositories.
StartNoRepos ==
    /\ pc = "start" /\ input.token # "" /\ Len(input.repos) = 0
    /\ runErr' = "no repositories specified"
    /\ pc' = "done"
    /\ UNCHANGED <<input, parseVars, configVars, queryVars, denied, ri, pulls, pi, prs, out>>

Start ==
    /\ pc = "start" /\ input.token # "" /\ Len(input.repos) > 0
    /\ ri' = 1
    /\ pc' = "repo"
    /\ UNCHANGED <<input, parseVars, configVars, queryVars, denied, pulls, pi, prs, out, runErr>>

repoPath == input.repos[ri]

IsValidRepo(path) == Len(Split(path, "/")) = 2

\* A path that is not owner/repo is reported and skipped.
InvalidRepo ==
    /\ pc = "repo" /\ ri <= Len(input.repos)
    /\ ~IsValidRepo(repoPath)
    /\ out' = Append(out, [repo |-> repoPath, kind |-> "invalid", records |-> 0])
    /\ ri' = ri + 1
    /\ UNCHANGED <<pc, input, parseVars, configVars, queryVars, denied, pulls, pi, prs, runErr>>

\* The query of the repository: its deny lists merged.
BuildQuery ==
    /\ deniedPackages' = mergeDenyList(getStringSlice(globalPackages),
                                       getStringSlice(repoPackages[repoPath]))
    /\ deniedOrgs' = mergeDenyList(getStringSlice(globalOrgs),
                                   getStringSlice(repoOrgs[repoPath]))

\* The listing fails, runCheck ends the run with the error.
ListFailsAbortsRun ==
    /\ pc = "repo" /\ ri <= Len(input.repos)
    /\ IsValidRepo(repoPath) /\ repoPath \in input.listFails
    /\ BuildQuery
    /\ runErr' = "list failed"
    /\ pc' = "done"
    /\ UNCHANGED <<input, parseVars, configVars, denied, ri, pulls, pi, prs, out>>

\* The listing fails: GetDependabotPRsWithDenyList returns nil and the error,
\* runCheck prints the error and goes on with the next repository.
ListFails ==
    /\ pc = "repo" /\ ri <= Len(input.repos)
    /\ IsValidRepo(repoPath) /\ repoPath \in input.listFails
    /\ BuildQuery
    /\ out' = Append(out, [repo |-> repoPath, kind |-> "error", records |-> 0])
    /\ ri' = ri + 1
    /\ UNCHANGED <<pc, input, parseVars, configVars, denied, pulls, pi, prs, runErr>>

\* The listing succeeds with at most MaxPRs pull requests.
ListPulls ==
    /\ pc = "repo" /\ ri <= Len(input.repos)
    /\ IsValidRepo(repoPath) /\ repoPath \notin input.listFails
    /\ BuildQuery
    /\ pulls' \in SeqsUpTo(PullKinds, MaxPRs)
    /\ prs' = <<>>
    /\ pi' = 1
    /\ pc' = "prs"
    /\ UNCHANGED <<input, parseVars, configVars, denied, ri, out, runErr>>

\* A pull request of another user is passed over.
SkipPull ==
    /\ pc = "prs" /\ pi <= Len(pulls)
    /\ pulls[pi].user # dependabotUserID
    /\ pi' = pi + 1
    /\ UNCHANGED <<pc, input, parseVars, configVars, queryVars, denied, ri, pulls, prs, out, runErr>>

\* A bot-authored pull request gets its record: parsed, matched, its status
\* looked up.  Its number is its place in the listing.
RecordPull ==
    /\ pc = "prs" /\ pi <= Len(pulls)
    /\ pulls[pi].user = dependabotUserID
    /\ prs' = Append(prs, PRInfo([number |-> pi, title |-> pulls[pi].title,
                                  statusErr |-> pulls[pi].statusErr,
                                  state |-> pulls[pi].state],
                                 deniedPackages, deniedOrgs))
    /\ pi' = pi + 1
    /\ UNCHANGED <<pc, input, parseVars, configVars, queryVars, denied, ri, pulls, out, runErr>>

\* GetDependabotPRsWithDenyList returns the records and runCheck prints them.
Report ==
    /\ pc = "prs" /\ pi > Len(pulls)
    /\ out' = Append(out, [repo |-> repoPath,
                           kind |-> IF Len(prs) = 0 THEN "none" ELSE "prs",
                           records |-> Len(prs)])
    /\ ri' = ri + 1
    /\ pulls' = <<>> /\ prs' = <<>> /\ pi' = 0
    /\ pc' = "repo"
    /\ UNCHANGED <<input, parseVars, configVars, queryVars, denied, runErr>>

\* After the last repository runCheck returns nil.
Return ==
    /\ pc = "repo" /\ ri > Len(input.repos)
    /\ runErr' = ""
    /\ pc' = "done"
    /\ UNCHANGED <<input, parseVars, configVars, queryVars, denied, ri, pulls, pi, prs, out>>

Next ==
    \/ StartNoToken \/ StartNoRepos \/ Start
    \/ InvalidRepo \/ ListFails \/ ListPulls
    \/ SkipPull \/ RecordPull \/ Report
    \/ Return

Spec == Init /\ [][Next]_vars

-----------------------------------------------------------------------------
(* Properties of the title parser, checked under SpecParse.                *)

\* The title has the form "Bump <X> from <A> to <B>": the keyword in any
\* letter case, single spaces, X a non-empty token.
IsBumpForm(in) == ToLower(in.kw) = "bump" /\ in.conn = " from " /\ in.X # ""

\* C5: for every title "Bump <X> from <A> to <B>" (keyword in any letter case)
\* extractPackageInfo returns packageName = X exactly, in its original case, and
\* the whitespace fallback is not consulted, also when A or B holds "/" or "@".
C5_BumpFormGivesX ==
    (pc = "parsed" /\ IsBumpForm(input)) => packageName = input.X

C5_Witness ==
    /\ pc = "parsed" /\ IsBumpForm(input)
    /\ input.kw = "BUMP" /\ input.X = "DataDog" /\ input.A = "a/b" /\ input.B = "c@d"
    /\ packageName = "DataDog"

\* The org of a package identifier by the rules of the specification, first
\* applicable rule first.
RECURSIVE FirstOrgSegment(_, _)
FirstOrgSegment(segs, i) ==
    IF i > Len(segs) THEN ""
    ELSE IF Index(segs[i], ".") < 0 /\ ~HasPrefix(segs[i], "v") THEN segs[i]
    ELSE FirstOrgSegment(segs, i + 1)

OrgByRules(P) ==
    LET segs == Split(P, "/")
    IN  CASE HasPrefix(P, "@") /\ Len(segs) > 1 -> SubSeq(P, 2, Index(P, "/"))
          [] HasPrefix(P, "golang.org/x/") \/ HasPrefix(P, "google.golang.org/") -> ""
          [] HasPrefix(P, "gopkg.in/") -> IF Len(segs) > 2 THEN ToLower(segs[2]) ELSE ""
          [] HasPrefix(P, "github.com/") /\ Len(segs) >= 3 -> segs[2]
          [] OTHER -> FirstOrgSegment(segs, 2)

Segments(P) == {Split(P, "/")[i] : i \in 1..Len(Split(P, "/"))}

\* The rules part of C6, with "no org without a package".
OrgFollowsRules ==
    pc = "parsed" =>
        /\ packageName # "" => orgName = OrgByRules(packageName)
        /\ packageName = "" => orgName = ""

-----------------------------------------------------------------------------
(* Properties of the deny matcher, checked under SpecMatch.                *)

IsPlain(E) == ~Contains(E, "*") /\ ~Contains(E, "@")

\* P equals E ignoring case, or P is <base>@<version> with base equal to E
\* ignoring case.
NamesPackage(P, E) ==
    \/ EqualFold(P, E)
    \/ \E i \in 1..Len(P) : At(P, i) = "@" /\ EqualFold(SubSeq(P, 1, i - 1), E)

\* C1: with deniedPackages = [E], E a plain entry, and no denied orgs, isDenied
\* reports denied exactly when the package name equals E ignoring case or is
\* <base>@<version> with base equal to E ignoring case; a proper prefix or
\* substring does not deny.
C1_PlainEntryIsExact ==
    (/\ pc = "done" /\ deniedOrgs = <<>>
     /\ Len(deniedPackages) = 1 /\ IsPlain(deniedPackages[1]))
    => (denied <=> NamesPackage(packageName, deniedPackages[1]))

C1_Witness ==
    /\ pc = "done" /\ deniedOrgs = <<>>
    /\ deniedPackages = <<"aws-sdk-go">>
    /\ packageName = "aws-sdk-go-v2"
    /\ ~denied

\* The four wildcard forms, as the specification lists them.
WildcardDenies(P, E) ==
    \/ ToLower(E) = "*alpha*" /\ Contains(ToLower(P), "alpha")
    \/ ToLower(E) = "*beta*"  /\ Contains(ToLower(P), "beta")
    \/ ToLower(E) = "*rc*"    /\ Contains(ToLower(P), "rc")
    \/ ToLower(E) = "*/v0"    /\ HasSuffix(ToLower(P), "/v0")

HasNoStar(E) == ~Contains(E, "*")

\* C9: an entry that holds "*" decides only as one of the four forms; any other
\* such entry is inert, also for a package name equal to it, and the entries
\* after it are still checked: the decision is that of the four forms on the
\* entries with "*" and of the matcher on the list without those entries.
C9_OnlyFourWildcards ==
    pc = "done" =>
        (denied <=>
            \/ \E i \in 1..Len(deniedPackages) :
                  /\ ~HasNoStar(deniedPackages[i])
                  /\ WildcardDenies(packageName, deniedPackages[i])
            \/ isDenied(packageName, orgName,
                        SelectSeq(deniedPackages, HasNoStar), deniedOrgs))

C9_Witness ==
    /\ pc = "done" /\ deniedOrgs = <<>>
    /\ deniedPackages = <<"*foo*">>
    /\ packageName = "*foo*"
    /\ ~denied

\* An entry @<scope>/<name> without a version part and without "*".
IsScopedUnversioned(E) ==
    /\ HasPrefix(E, "@") /\ Contains(E, "/")
    /\ ~Contains(SubSeq(E, 2, Len(E)), "@")
    /\ ~Contains(E, "*")

\* C10: an entry @<scope>/<name> without a version denies only that package:
\* a different package whose name merely contains the entry is not denied.
C10_ScopedEntryIsExact ==
    (/\ pc = "done" /\ deniedOrgs = <<>>
     /\ Len(deniedPackages) = 1 /\ IsScopedUnversioned(deniedPackages[1])
     /\ ~EqualFold(packageName, deniedPackages[1])
     /\ ~HasPrefix(ToLower(packageName), ToLower(deniedPackages[1]) \o "@")
     /\ Contains(ToLower(packageName), ToLower(deniedPackages[1])))
    => ~denied

-----------------------------------------------------------------------------
(* Properties of the policy resolver, checked under SpecPolicy.            *)

\* C3: a title that gives no package name gives no org either and is not
\* denied, whatever the global and repository lists hold.
C3_UnparsedNeverDenied ==
    (pc = "done" /\ packageName = "") => (orgName = "" /\ ~denied)

C3_Witness ==
    /\ pc = "done" /\ title = "hello world" /\ packageName = ""
    /\ getStringSlice(globalPackages) = <<"", " ">>
    /\ getStringSlice(globalOrgs) = <<"", "dd">>
    /\ ~denied

Normalized(e) == ToLower(TrimSpace(e))

\* The entries of L at the indices in keep, in their order.
RECURSIVE Pick(_, _, _)
Pick(L, keep, i) ==
    IF i > Len(L) THEN <<>>
    ELSE (IF i \in keep THEN <<L[i]>> ELSE <<>>) \o Pick(L, keep, i + 1)

\* The indices of the entries that equal no earlier entry after trimming and
\* ignoring case.
FirstOccurrences(L) ==
    {i \in 1..Len(L) : \A j \in 1..(i - 1) : Normalized(L[j]) # Normalized(L[i])}

NonBlank(L) == {i \in 1..Len(L) : Normalized(L[i]) # ""}

ConfiguredPackages ==
    getStringSlice(globalPackages) \o getStringSlice(repoPackages[input.repo])

ConfiguredOrgs ==
    getStringSlice(globalOrgs) \o getStringSlice(repoOrgs[input.repo])

\* C4 as stated: the effective list is G followed by R without the entries that
\* equal an earlier entry; every other entry is kept.
C4_AsStated ==
    pc # "merge" =>
        /\ deniedPackages = Pick(ConfiguredPackages, FirstOccurrences(ConfiguredPackages), 1)
        /\ deniedOrgs = Pick(ConfiguredOrgs, FirstOccurrences(ConfiguredOrgs), 1)

\* C4 (amended): the effective list is G followed by R without the entries that
\* are blank after trimming and without the entries that equal an earlier entry
\* after trimming and ignoring case; every other entry is kept, in its order
\* and spelling; packages and orgs alike, an absent override being empty.
C4_MergeKeepsFirstNonBlank ==
    pc # "merge" =>
        /\ deniedPackages =
              Pick(ConfiguredPackages,
                   FirstOccurrences(ConfiguredPackages) \cap NonBlank(ConfiguredPackages), 1)
        /\ deniedOrgs =
              Pick(ConfiguredOrgs,
                   FirstOccurrences(ConfiguredOrgs) \cap NonBlank(ConfiguredOrgs), 1)

C4_Witness ==
    /\ pc = "match"
    /\ getStringSlice(globalPackages) = <<"pkg", "b@1">>
    /\ getStringSlice(repoPackages["o/r1"]) = <<" PKG", " ">>
    /\ deniedPackages = <<"pkg", "b@1">>
    /\ deniedOrgs = <<"DD ">>

-----------------------------------------------------------------------------
(* Properties of the check run, checked under Spec.                        *)

Denies(r) ==
    LET info == extractPackageInfo(r.Title)
    IN  isDenied(info.packageName, info.orgName, deniedPackages, deniedOrgs)

Reason(r) ==
    LET info == extractPackageInfo(r.Title)
    IN  SkipReason(info.packageName, info.orgName, deniedPackages, deniedOrgs)

\* C2: in every record the deny reason is non-empty when the record is denied
\* and empty when it is not, whichever kind of entry caused the denial.
C2_ReasonIffDenied ==
    \A i \in 1..Len(prs) : prs[i].Skipped <=> prs[i].SkipReason # ""

OrgIsDenied(org) == \E i \in 1..Len(deniedOrgs) : EqualFold(org, deniedOrgs[i])

\* C8: the deny reason names a rule that fired: the org reason when the org
\* equals an entry of deniedOrgs, otherwise a package reason that names an
\* entry the matcher matches against the package name.
C8_ReasonNamesFiredRule ==
    \A i \in 1..Len(prs) :
        LET info == extractPackageInfo(prs[i].Title)
        IN  IF OrgIsDenied(info.orgName)
            THEN prs[i].SkipReason = "org '" \o info.orgName \o "' is denied"
            ELSE prs[i].SkipReason # "" =>
                    \E k \in 1..Len(deniedPackages) :
                        /\ prs[i].SkipReason = "package '" \o deniedPackages[k] \o "' is denied"
                        /\ PackageEntryDenies(info.packageName, deniedPackages[k])

\* The bot-authored pull requests among the first k listed.
BotPulls(k) == {i \in 1..k : pulls[i].user = dependabotUserID}

\* While a repository's pull requests are processed, the records are those of
\* the bot-authored pull requests passed so far, in the listing's order; a
\* failed status lookup leaves Status "" and nothing else.
RecordsFollowListing ==
    pc = "prs" =>
        /\ Len(prs) = Cardinality(BotPulls(pi - 1))
        /\ \A i \in BotPulls(pi - 1) :
              LET r == prs[Cardinality(BotPulls(i))]
              IN  /\ r.Number = i
                  /\ r.Title = pulls[i].title
                  /\ r.Status = (IF pulls[i].statusErr THEN "" ELSE pulls[i].state)
                  /\ r.Skipped = Denies(r)
                  /\ r.SkipReason = Reason(r)

\* Every repository passed so far has its entry, in order; a failed listing
\* gives an error and no records; the run that started returns no error after
\* the last repository.
EveryRepoReported ==
    /\ pc \in {"repo", "prs"} => Len(out) = ri - 1
    /\ \A k \in 1..Len(out) :
          /\ out[k].repo = input.repos[k]
          /\ IsValidRepo(out[k].repo) =>
                (out[k].kind = "error" <=> out[k].repo \in input.listFails)
          /\ out[k].kind = "error" => out[k].records = 0
    /\ (pc = "done" /\ input.token # "" /\ Len(input.repos) > 0) =>
          (runErr = "" /\ Len(out) = Len(input.repos))

\* C7: failures are isolated: a failed listing gives that repository an error
\* and no records, the later repositories are still processed and the run
\* returns no error; a failed status lookup leaves ciStatus "" in that pull
\* request's record, the later pull requests get their records, in the order
\* listed.
C7_FailuresAreIsolated == RecordsFollowListing /\ EveryRepoReported

C7_Witness ==
    /\ pc = "prs" /\ pi > Len(pulls)
    /\ Len(out) = 2 /\ out[1].kind = "error"
    /\ Len(prs) = 2
    /\ prs[1].Status = "" /\ prs[1].Skipped
    /\ prs[2].Status = "success" /\ prs[2].Number = 2

=============================================================================
